---- MODULE Spec2Model ----
(***************************************************************************)
(* Pass prediction of the satellite tracker:                               *)
(*   isSatelliteVisible and calculateSatellitePasses of                    *)
(*   client/src/lib/consts.ts.                                             *)
(*                                                                         *)
(* Times are Date values in milliseconds.  The orbital propagator          *)
(* (satellite.js) is an external black box: for a satellite and a time it  *)
(* throws, yields no position, or yields a position, of which the model    *)
(* keeps the two angles the code derives from it (elevation, and the       *)
(* azimuth before normalisation), in whole degrees.  The propagator is     *)
(* deterministic: its answer for a (satellite, time) is drawn the first    *)
(* time it is asked and recorded in `provider`.  The call on satellite 1   *)
(* alone draws from five answers and two thresholds; the calls on other    *)
(* lists draw from two answers, over a shorter window.                     *)
(***************************************************************************)
EXTENDS Integers, Sequences, FiniteSets, TLC

(***************************************************************************)
(* Bounds of the model.                                                    *)
(***************************************************************************)
MaxSatellites == 2
\* durationHours in quarter minutes: of the call on satellite 1 alone, and
\* of the other calls
MaxDurationUnits == 17
MaxBatchDurationUnits == 9
FirstStartTime == 120000

\* durationHours is drawn in quarter minutes
DurationUnitsPerHour == 4 * 60

(***************************************************************************)
(* Constants of the program.                                               *)
(***************************************************************************)
timeStepMinutes == 1
MsPerMinute == 1000 * 60
MsPerHour == 60 * 60 * 1000

SatelliteIds == 1..MaxSatellites
MinElevations(list) == IF list = <<1>> THEN {0, 10} ELSE {10}
\* the longer the list, the shorter the windows drawn for it
DurationHours(list) ==
  IF list = <<1>> THEN -1..MaxDurationUnits
  ELSE IF Len(list) <= 2 THEN -1..MaxBatchDurationUnits
  ELSE -1..(MaxBatchDurationUnits \div (Len(list) - 1))

\* the satellites argument: lists of distinct satellites
RECURSIVE Perms(_)
Perms(S) ==
  IF S = {} THEN {<<>>}
  ELSE UNION {{<<x>> \o p : p \in Perms(S \ {x})} : x \in S}

SatelliteLists == UNION {Perms(S) : S \in SUBSET SatelliteIds}

(***************************************************************************)
(* The position provider (satelliteJs.twoline2satrec / propagate and the   *)
(* geometry computed from the position).                                   *)
(***************************************************************************)
Throws == [kind |-> "throw"]
NoPosition == [kind |-> "none"]
Position(el, az) == [kind |-> "position", elevation |-> el, azimuth |-> az]

ProviderOutcomes ==
  {Throws, Position(-10, -160), Position(5, 10), Position(10, 170),
   Position(20, 100)}

\* the answers drawn in the calls other than the one on satellite 1 alone
BatchOutcomes == {NoPosition, Position(20, 100)}

Repertoire(list) == IF list = <<1>> THEN ProviderOutcomes ELSE BatchOutcomes

\* the recorded answer of the provider; a time never asked has no position
Propagate(P, satellite, time) ==
  IF <<satellite, time>> \in DOMAIN P THEN P[<<satellite, time>>] ELSE NoPosition

(***************************************************************************)
(* isSatelliteVisible (consts.ts 112-169).                                 *)
(* A result carries `threw`: whether an exception left the function.       *)
(***************************************************************************)
Visibility(v, el, az) ==
  [threw |-> FALSE, visible |-> v, elevation |-> el, azimuth |-> az]

Escaped == [threw |-> TRUE, visible |-> FALSE, elevation |-> 0, azimuth |-> 0]

\* the try block, lines 118-163: "fell" when control leaves it without returning
VisibleTry(o) ==
  IF o.kind = "throw" THEN [exit |-> "throw"]
  ELSE IF o.kind = "position"
       THEN [exit |-> "return",
             value |-> Visibility(o.elevation > 0, o.elevation,
                                  (o.azimuth + 360) % 360)]
       ELSE [exit |-> "fell"]

\* a catch clause that lets the exception go on
VisibleCatchRethrows(o) == [exit |-> "throw"]

\* the catch clause, lines 164-166: logs, and control reaches line 168
VisibleCatch(o) == [exit |-> "fell"]

isSatelliteVisible(P, satellite, time) ==
  LET o == Propagate(P, satellite, time)
      t == VisibleTry(o)
      r == IF t.exit = "throw" THEN VisibleCatch(o) ELSE t
  IN  IF r.exit = "return" THEN r.value
      ELSE IF r.exit = "throw" THEN Escaped
      ELSE Visibility(FALSE, 0, 0)

(***************************************************************************)
(* getDirection (consts.ts 259-270).                                       *)
(***************************************************************************)
directions == <<"N", "NE", "E", "SE", "S", "SW", "W", "NW">>

\* Math.round of a / b for a >= 0, b > 0: halves round up
Round(a, b) == (2 * a + b) \div (2 * b)

\* directions[index]: undefined outside the array
ArrayAt(array, i) ==
  IF (i + 1) \in DOMAIN array THEN array[i + 1] ELSE "undefined"

\* the index left as rounded
compassIndexUnwrapped(num, den) == Round(num, 45 * den)

\* line 263, for the azimuth num / den
compassIndex(num, den) == Round(num, 45 * den) % 8

\* lines 261-264, for the azimuth num / den
getCompassDirectionOf(num, den) == ArrayAt(directions, compassIndex(num, den))

getCompassDirection(azimuth) == getCompassDirectionOf(azimuth, 1)

\* the two ends exchanged
getDirectionSwapped(startAzimuth, endAzimuth) ==
  getCompassDirection(endAzimuth) \o " to " \o getCompassDirection(startAzimuth)

getDirection(startAzimuth, endAzimuth) ==
  getCompassDirection(startAzimuth) \o " to " \o getCompassDirection(endAzimuth)

(***************************************************************************)
(* Values of the scan.                                                     *)
(***************************************************************************)
Null == <<>>

PassFields ==
  {"satellite", "startTime", "endTime", "peakTime", "peakElevation",
   "duration", "direction", "maxElevation", "visible"}

\* obj.name = v on a Partial<SatellitePass>
SetField(obj, name, v) ==
  [f \in (DOMAIN obj) \cup {name} |-> IF f = name THEN v ELSE obj[f]]

\* a quotient ms / (1000 * 60), kept exact
Minutes(ms) == [num |-> ms, den |-> MsPerMinute]
Truthy(d) == d.num # 0
MoreThan(d, n) == d.num > n * d.den

EndTime(start, hours) == start + (hours * MsPerHour) \div DurationUnitsPerHour

\* the loop variable being the startTime argument itself, not a copy
AdvanceAliased(time, start) ==
  [time |-> time + timeStepMinutes * MsPerMinute,
   startTime |-> time + timeStepMinutes * MsPerMinute]

\* the minutes added to the startTime argument as well as to the copy
AdvanceArgument(time, start) ==
  [time |-> time + timeStepMinutes * MsPerMinute,
   startTime |-> start + timeStepMinutes * MsPerMinute]

\* time.setMinutes(time.getMinutes() + timeStepMinutes) on the copy of
\* startTime made by line 191: the argument is left alone (a minute of
\* local time is 60000 ms: no clock change of the time zone in the window)
Advance(time, start) ==
  [time |-> time + timeStepMinutes * MsPerMinute, startTime |-> start]

(***************************************************************************)
(* calculateSatellitePasses (consts.ts 172-256): the locals of one         *)
(* satellite's scan are a record                                           *)
(*   [currentPass, wasVisible, peakElevation, peakTime, passes, raised]    *)
(* where passes is the shared output array and raised says that an         *)
(* exception is on its way to the catch clause of line 249.                *)
(***************************************************************************)
\* lines 185-188
ScanStart(passes, start) ==
  [currentPass |-> Null, wasVisible |-> FALSE, peakElevation |-> 0,
   peakTime |-> start, passes |-> passes, raised |-> FALSE]

\* the threshold forgotten
IsVisibleAboveHorizon(visibility, minElevation) == visibility.visible

\* the threshold compared strictly
IsVisibleStrict(visibility, minElevation) ==
  visibility.visible /\ visibility.elevation > minElevation

\* the threshold alone, without the horizon test of isSatelliteVisible
IsVisibleIgnoringHorizon(visibility, minElevation) ==
  visibility.elevation >= minElevation

\* line 193
IsVisible(visibility, minElevation) ==
  visibility.visible /\ visibility.elevation >= minElevation

\* the new pass given the peak the locals still hold
OpenPassKeepsPeak(sc, satellite, time, visibility) ==
  [sc EXCEPT
     !.currentPass = [satellite |-> satellite,
                      startTime |-> time,
                      peakElevation |-> sc.peakElevation,
                      peakTime |-> sc.peakTime,
                      maxElevation |-> sc.peakElevation,
                      visible |-> TRUE]]

\* the new pass dated from the sample before
OpenPassAtPreviousSample(sc, satellite, time, visibility) ==
  [sc EXCEPT
     !.currentPass = [satellite |-> satellite,
                      startTime |-> time - timeStepMinutes * MsPerMinute,
                      peakElevation |-> visibility.elevation,
                      peakTime |-> time,
                      maxElevation |-> visibility.elevation,
                      visible |-> TRUE],
     !.peakElevation = visibility.elevation,
     !.peakTime = time]

\* lines 197-206
OpenPass(sc, satellite, time, visibility) ==
  [sc EXCEPT
     !.currentPass = [satellite |-> satellite,
                      startTime |-> time,
                      peakElevation |-> visibility.elevation,
                      peakTime |-> time,
                      maxElevation |-> visibility.elevation,
                      visible |-> TRUE],
     !.peakElevation = visibility.elevation,
     !.peakTime = time]

\* the peak elevation tracked without its time
TrackPeakElevationOnly(sc, time, visibility) ==
  IF visibility.elevation > sc.peakElevation
  THEN [sc EXCEPT
          !.peakElevation = visibility.elevation,
          !.currentPass = [sc.currentPass EXCEPT
                             !.peakElevation = visibility.elevation,
                             !.maxElevation = visibility.elevation]]
  ELSE sc

\* the peak moved by a sample as high as the current peak
TrackPeakOnTies(sc, time, visibility) ==
  IF visibility.elevation >= sc.peakElevation
  THEN [sc EXCEPT
          !.peakElevation = visibility.elevation,
          !.peakTime = time,
          !.currentPass = [sc.currentPass EXCEPT
                             !.peakElevation = visibility.elevation,
                             !.peakTime = time,
                             !.maxElevation = visibility.elevation]]
  ELSE sc

\* lines 209-215
TrackPeak(sc, time, visibility) ==
  IF visibility.elevation > sc.peakElevation
  THEN [sc EXCEPT
          !.peakElevation = visibility.elevation,
          !.peakTime = time,
          !.currentPass = [sc.currentPass EXCEPT
                             !.peakElevation = visibility.elevation,
                             !.peakTime = time,
                             !.maxElevation = visibility.elevation]]
  ELSE sc

\* the minimum duration at exactly one minute
LongEnoughInclusive(duration) == Truthy(duration) /\ duration.num >= duration.den

\* the minimum duration at two minutes
LongEnoughTwoMinutes(duration) == Truthy(duration) /\ MoreThan(duration, 2)

\* line 227 and line 242
LongEnough(duration) == Truthy(duration) /\ MoreThan(duration, 1)

\* the finalized pass left in currentPass
ClosePassKeepsOpen(sc, satellite, time, P) ==
  LET ended == SetField(sc.currentPass, "endTime", time)
      timed == SetField(ended, "duration",
                        Minutes(ended.endTime - ended.startTime))
      startVis == isSatelliteVisible(P, satellite, timed.startTime)
      endVis == isSatelliteVisible(P, satellite, timed.endTime)
      done == SetField(timed, "direction",
                       getDirection(startVis.azimuth, endVis.azimuth))
  IN  IF startVis.threw \/ endVis.threw
      THEN [sc EXCEPT !.raised = TRUE]
      ELSE [sc EXCEPT
              !.passes = IF LongEnough(done.duration)
                         THEN Append(sc.passes, done) ELSE sc.passes,
              !.currentPass = done]

\* lines 218-231
ClosePass(sc, satellite, time, P) ==
  LET ended == SetField(sc.currentPass, "endTime", time)
      timed == SetField(ended, "duration",
                        Minutes(ended.endTime - ended.startTime))
      startVis == isSatelliteVisible(P, satellite, timed.startTime)
      endVis == isSatelliteVisible(P, satellite, timed.endTime)
      done == SetField(timed, "direction",
                       getDirection(startVis.azimuth, endVis.azimuth))
  IN  IF startVis.threw \/ endVis.threw
      THEN [sc EXCEPT !.raised = TRUE]
      ELSE [sc EXCEPT
              !.passes = IF LongEnough(done.duration)
                         THEN Append(sc.passes, done) ELSE sc.passes,
              !.currentPass = Null]

\* line 234 left out: wasVisible never updated
LoopBodyKeepsWasVisible(sc, satellite, time, minElevation, P) ==
  LET visibility == isSatelliteVisible(P, satellite, time)
      isVisible == IsVisible(visibility, minElevation)
      after ==
        IF isVisible /\ ~sc.wasVisible
        THEN OpenPass(sc, satellite, time, visibility)
        ELSE IF isVisible /\ sc.currentPass # Null
        THEN TrackPeak(sc, time, visibility)
        ELSE IF ~isVisible /\ sc.wasVisible /\ sc.currentPass # Null
        THEN ClosePass(sc, satellite, time, P)
        ELSE sc
  IN  IF visibility.threw THEN [sc EXCEPT !.raised = TRUE]
      ELSE after

\* a sample without a position skipped, the scan going on as it was
LoopBodySkipsFailedSample(sc, satellite, time, minElevation, P) ==
  LET visibility == isSatelliteVisible(P, satellite, time)
      isVisible == IsVisible(visibility, minElevation)
      after ==
        IF isVisible /\ ~sc.wasVisible
        THEN OpenPass(sc, satellite, time, visibility)
        ELSE IF isVisible /\ sc.currentPass # Null
        THEN TrackPeak(sc, time, visibility)
        ELSE IF ~isVisible /\ sc.wasVisible /\ sc.currentPass # Null
        THEN ClosePass(sc, satellite, time, P)
        ELSE sc
  IN  IF Propagate(P, satellite, time).kind # "position" THEN sc
      ELSE IF visibility.threw THEN [sc EXCEPT !.raised = TRUE]
      ELSE IF after.raised THEN after
      ELSE [after EXCEPT !.wasVisible = isVisible]

\* lines 192-234: one iteration of the time loop
LoopBody(sc, satellite, time, minElevation, P) ==
  LET visibility == isSatelliteVisible(P, satellite, time)
      isVisible == IsVisible(visibility, minElevation)
      after ==
        IF isVisible /\ ~sc.wasVisible
        THEN OpenPass(sc, satellite, time, visibility)
        ELSE IF isVisible /\ sc.currentPass # Null
        THEN TrackPeak(sc, time, visibility)
        ELSE IF ~isVisible /\ sc.wasVisible /\ sc.currentPass # Null
        THEN ClosePass(sc, satellite, time, P)
        ELSE sc
  IN  IF visibility.threw THEN [sc EXCEPT !.raised = TRUE]
      ELSE IF after.raised THEN after
      ELSE [after EXCEPT !.wasVisible = isVisible]

\* the open pass pushed before its direction is set
AfterLoopNoDirection(sc, satellite, endTime, P) ==
  IF sc.currentPass # Null /\ sc.wasVisible
  THEN LET ended == SetField(sc.currentPass, "endTime", endTime)
           timed == SetField(ended, "duration",
                             Minutes(ended.endTime - ended.startTime))
       IN  IF LongEnough(timed.duration)
           THEN [sc EXCEPT !.currentPass = timed,
                           !.passes = Append(sc.passes, timed)]
           ELSE [sc EXCEPT !.currentPass = timed]
  ELSE sc

\* the pass still open at the end of the window pushed whatever its
\* duration
AfterLoopAnyDuration(sc, satellite, endTime, P) ==
  IF sc.currentPass # Null /\ sc.wasVisible
  THEN LET ended == SetField(sc.currentPass, "endTime", endTime)
           timed == SetField(ended, "duration",
                             Minutes(ended.endTime - ended.startTime))
           startVis == isSatelliteVisible(P, satellite, timed.startTime)
           endVis == isSatelliteVisible(P, satellite, timed.endTime)
           done == SetField(timed, "direction",
                            getDirection(startVis.azimuth, endVis.azimuth))
       IN  IF startVis.threw \/ endVis.threw
           THEN [sc EXCEPT !.raised = TRUE]
           ELSE [sc EXCEPT !.currentPass = done,
                           !.passes = Append(sc.passes, done)]
  ELSE sc

\* the pass still open at the end of the window forgotten
AfterLoopDropsOpenPass(sc, satellite, endTime, P) == sc

\* lines 238-248: a pass still open at the end of the window
AfterLoop(sc, satellite, endTime, P) ==
  IF sc.currentPass # Null /\ sc.wasVisible
  THEN LET ended == SetField(sc.currentPass, "endTime", endTime)
           timed == SetField(ended, "duration",
                             Minutes(ended.endTime - ended.startTime))
           startVis == isSatelliteVisible(P, satellite, timed.startTime)
           endVis == isSatelliteVisible(P, satellite, timed.endTime)
           done == SetField(timed, "direction",
                            getDirection(startVis.azimuth, endVis.azimuth))
       IN  IF LongEnough(timed.duration)
           THEN IF startVis.threw \/ endVis.threw
                THEN [sc EXCEPT !.raised = TRUE]
                ELSE [sc EXCEPT !.currentPass = done,
                                !.passes = Append(sc.passes, done)]
           ELSE [sc EXCEPT !.currentPass = timed]
  ELSE sc

\* line 255: Array.prototype.sort with the comparator
\* a.startTime.getTime() - b.startTime.getTime() (a stable sort)
RECURSIVE Insert(_, _)
Insert(sorted, p) ==
  IF sorted = <<>> THEN <<p>>
  ELSE LET last == sorted[Len(sorted)]
       IN  IF last.startTime - p.startTime <= 0
           THEN Append(sorted, p)
           ELSE Append(Insert(SubSeq(sorted, 1, Len(sorted) - 1), p), last)

\* no sort at all
Unsorted(passes) == passes

RECURSIVE SortByStartTime(_)
SortByStartTime(passes) ==
  IF passes = <<>> THEN <<>>
  ELSE Insert(SortByStartTime(SubSeq(passes, 1, Len(passes) - 1)),
              passes[Len(passes)])

(***************************************************************************)
(* Errors inside the try block of line 184 that do not come from           *)
(* isSatelliteVisible (for instance the comparison of line 193 when        *)
(* minElevation is an object whose valueOf throws).  R maps a satellite to *)
(* the sample time at which its scan raises.                               *)
(***************************************************************************)
Raises(R, satellite, time) == satellite \in DOMAIN R /\ R[satellite] = time

\* no catch clause: the exception leaves the call
NoCatch == "thrown"

\* where control goes after the catch clause of lines 249-251: the next
\* iteration of the for loop of line 183
AfterCatch == "for"

(***************************************************************************)
(* The whole call as a function of its arguments, of the provider P and of *)
(* the errors R; env = [endTime, minElevation, P, R].                      *)
(***************************************************************************)
RECURSIVE TimeLoop(_, _, _, _, _)
TimeLoop(sc, satellite, time, start, env) ==
  IF time > env.endTime
  THEN [sc |-> AfterLoop(sc, satellite, env.endTime, env.P), startTime |-> start]
  ELSE IF Raises(env.R, satellite, time)
  THEN [sc |-> [sc EXCEPT !.raised = TRUE], startTime |-> start]
  ELSE LET body == LoopBody(sc, satellite, time, env.minElevation, env.P)
           next == Advance(time, start)
       IN  IF body.raised THEN [sc |-> body, startTime |-> start]
           ELSE TimeLoop(body, satellite, next.time, next.startTime, env)

RECURSIVE ForLoop(_, _, _, _, _)
ForLoop(satellites, i, passes, start, env) ==
  IF i > Len(satellites)
  THEN [thrown |-> FALSE, passes |-> passes, startTime |-> start]
  ELSE LET r == TimeLoop(ScanStart(passes, start), satellites[i], start, start, env)
       IN  IF r.sc.raised /\ AfterCatch # "for"
           THEN [thrown |-> TRUE, passes |-> r.sc.passes, startTime |-> r.startTime]
           ELSE ForLoop(satellites, i + 1, r.sc.passes, r.startTime, env)

calculateSatellitePasses(satellites, start, hours, minElevation, P, R) ==
  LET env == [endTime |-> EndTime(start, hours), minElevation |-> minElevation,
              P |-> P, R |-> R]
      r == ForLoop(satellites, 1, <<>>, start, env)
  IN  [thrown |-> r.thrown,
       result |-> IF r.thrown THEN <<>> ELSE SortByStartTime(r.passes),
       startTime |-> r.startTime]

(***************************************************************************)
(* The aperture cone: the memo isInCone of Satellite.tsx (lines 37-70) and *)
(* the aperture slider of FilterPanel.tsx (lines 175-183).  Vectors have   *)
(* integer coordinates and the cone direction is a unit vector along an    *)
(* axis, so that every product below is exact.                             *)
(***************************************************************************)
MaxCoordinate == 2

DEFAULT_APERTURE_ANGLE == 90
SliderMin == 10
SliderMax == 180
SliderStep == 5

SliderValues == {a \in SliderMin..SliderMax : (a - SliderMin) % SliderStep = 0}

Coordinates == (0 - MaxCoordinate)..MaxCoordinate
Positions == {<<x, y, z>> : x \in Coordinates, y \in Coordinates, z \in Coordinates}
UserPositions == {Null, <<0, 1, 0>>, <<1, 0, 0>>}
ConeDirections == {Null, <<1, 0, 0>>, <<0, 1, 0>>, <<0, 0, 1>>}

Sub(a, b) == <<a[1] - b[1], a[2] - b[2], a[3] - b[3]>>
Dot(a, b) == a[1] * b[1] + a[2] * b[2] + a[3] * b[3]
MultiplyScalar(a, n) == <<a[1] * n, a[2] * n, a[3] * n>>
LengthSq(a) == Dot(a, a)

\* Math.tan((Math.PI / 180) * 2.5 * k) in hundredths, rounded down, for
\* k = 1..72; the double nearest to the tangent of Math.PI / 2 is about
\* 1.6e16 and is entered as 46340, the largest value whose square is
\* below 2^31.
TanHundredths ==
  <<
     4, 8, 13, 17, 22, 26, 31, 36,
     41, 46, 52, 57, 63, 70, 76, 83,
     91, 99, 109, 119, 130, 142, 156, 173,
     192, 214, 241, 274, 317, 373, 451, 567,
     759, 1143, 2290, 46340, -2291, -1144, -760, -568,
     -452, -374, -318, -275, -242, -215, -193, -174,
     -157, -143, -131, -120, -110, -101, -92, -84,
     -77, -71, -64, -58, -53, -47, -42, -37,
     -32, -27, -23, -18, -14, -9, -5, -1
  >>

\* the line-65 angle with the aperture taken whole
wholeAngle(apertureAngle) == (2 * apertureAngle) \div SliderStep

\* line 65: apertureAngle / 2, counted in steps of 2.5 degrees (half a
\* slider step)
halfAngle(apertureAngle) == apertureAngle \div SliderStep

CeilDiv(a, b) == (a + b - 1) \div b

\* line 69: distanceToAxis <= projectionLength * tan, compared on the
\* squares (distanceToAxis >= 0 < projectionLength)
WithinRadius(distanceSq, projectionLength, tanHundredths) ==
  /\ tanHundredths >= 0
  /\ CeilDiv(10000 * distanceSq, projectionLength * projectionLength)
       <= tanHundredths * tanHundredths

\* lines 37-70
IsInCone(userPosition, coneDirection, position, apertureAngle) ==
  IF userPosition = Null \/ coneDirection = Null
  THEN FALSE
  ELSE LET apexToPoint == Sub(position, userPosition)
           projectionLength == Dot(apexToPoint, coneDirection)
       IN  IF projectionLength <= 0
           THEN FALSE
           ELSE LET projectedPoint == MultiplyScalar(coneDirection, projectionLength)
                    perpendicular == Sub(apexToPoint, projectedPoint)
                IN  WithinRadius(LengthSq(perpendicular), projectionLength,
                                 TanHundredths[halfAngle(apertureAngle)])

(***************************************************************************)
(* The memo isVisible of the other version of the Satellite component      *)
(* (src/unnamed/part_007, lines 37-59): the angle between the cone         *)
(* direction and the direction to the satellite against half the aperture. *)
(***************************************************************************)
\* Math.cos((Math.PI / 180) * 2.5 * k) squared, in millionths, rounded, for
\* k = 1..72; the cosine itself is positive below k = 36 and negative above
CosSqMillionths ==
  <<
     998097, 992404, 982963, 969846, 953154, 933013, 909576, 883022,
     853553, 821394, 786788, 750000, 711309, 671010, 629410, 586824,
     543578, 500000, 456422, 413176, 370590, 328990, 288691, 250000,
     213212, 178606, 146447, 116978, 90424, 66987, 46846, 30154,
     17037, 7596, 1903, 0, 1903, 7596, 17037, 30154,
     46846, 66987, 90424, 116978, 146447, 178606, 213212, 250000,
     288691, 328990, 370590, 413176, 456422, 500000, 543578, 586824,
     629410, 671010, 711309, 750000, 786788, 821394, 853553, 883022,
     909576, 933013, 953154, 969846, 982963, 992404, 998097, 1000000
  >>

Sign(x) == IF x > 0 THEN 1 ELSE IF x < 0 THEN 0 - 1 ELSE 0

\* Vector3.normalize of a vector along an axis
Normalize(a) == <<Sign(a[1]), Sign(a[2]), Sign(a[3])>>

\* the line-55 angle with the aperture taken whole
wholeApertureRad(apertureAngle) == (2 * apertureAngle) \div SliderStep

\* line 55: (apertureAngle / 2) * Math.PI / 180, counted in steps of 2.5
\* degrees
halfApertureRad(apertureAngle) == apertureAngle \div SliderStep

\* Vector3.angleTo and line 58: acos(dot / sqrt(lengthSq * lengthSq)) <=
\* the angle of k steps, compared on the cosines (the angle is pi / 2 when
\* one of the vectors is null).  The length of toSatellite cancels, so the
\* normalize() of line 46 is left out.
AngleAtMost(dot, denominatorSq, k) ==
  IF denominatorSq = 0 THEN k >= 36
  ELSE IF k <= 36
  THEN dot >= 0 /\ dot * dot * 1000000 >= CosSqMillionths[k] * denominatorSq
  ELSE dot >= 0 \/ dot * dot * 1000000 <= CosSqMillionths[k] * denominatorSq

\* lines 37-59
IsVisibleByAngle(userPosition, coneDirection, position, apertureAngle) ==
  IF userPosition = Null
  THEN TRUE
  ELSE LET toSatellite == Sub(position, userPosition)
           direction == IF coneDirection # Null THEN coneDirection
                        ELSE Normalize(userPosition)
       IN  AngleAtMost(Dot(direction, toSatellite),
                       LengthSq(direction) * LengthSq(toSatellite),
                       halfApertureRad(apertureAngle))

(***************************************************************************)
(* The satellite store (src/unnamed/part_002, useSatelliteStore): the      *)
(* filters of lines 233-350.  A name or a search term is a sequence of     *)
(* characters.                                                             *)
(***************************************************************************)
\* String.prototype.toLowerCase on the letters used here
LowerCaseOf(c) ==
  CASE c = "A" -> "a"
    [] c = "I" -> "i"
    [] c = "N" -> "n"
    [] c = "O" -> "o"
    [] c = "S" -> "s"
    [] OTHER -> c

toLowerCase(str) == [i \in DOMAIN str |-> LowerCaseOf(str[i])]

\* String.prototype.includes
includes(name, term) ==
  \E i \in 0..(Len(name) - Len(term)) : SubSeq(name, i + 1, i + Len(term)) = term

\* sat.type || 'UNKNOWN' (a missing type is the empty string here)
TypeOrUnknown(sat) == IF sat.type = "" THEN "UNKNOWN" ELSE sat.type

\* lines 238-257: the selection after a click on a type
ToggledTypes(selectedSatelliteTypes, type) ==
  IF type = "ALL" THEN {"ALL"}
  ELSE LET withoutAll == selectedSatelliteTypes \ {"ALL"}
           toggled == IF type \in withoutAll
                      THEN withoutAll \ {type}
                      ELSE withoutAll \cup {type}
       IN  IF toggled = {} THEN {"ALL"} ELSE toggled

\* lines 260-267, 287-291, 315-319, 340-344
FilterByTypes(sats, selectedSatelliteTypes) ==
  IF "ALL" \in selectedSatelliteTypes THEN sats
  ELSE SelectSeq(sats, LAMBDA sat : TypeOrUnknown(sat) \in selectedSatelliteTypes)

\* lines 294-301 and 322-329
FilterBySearch(sats, searchFilters) ==
  IF Cardinality(searchFilters) > 0
  THEN SelectSeq(sats, LAMBDA sat :
                   \E term \in searchFilters : includes(toLowerCase(sat.name), term))
  ELSE sats

\* the satellites the API or the sample data can give
ISS == [id |-> 1, name |-> <<"I", "S", "S">>, type |-> "STATION"]
NOAA == [id |-> 2, name |-> <<"N", "O", "A", "A">>, type |-> "WEATHER"]
ISON == [id |-> 3, name |-> <<"I", "S", "O", "N">>, type |-> ""]
Catalogues == {<<>>, <<ISS, NOAA>>, <<NOAA, ISON, ISS>>}
SatelliteTypes == {"ALL", "STATION", "WEATHER", "UNKNOWN"}
SearchTerms == {<<"I", "S">>, <<"n", "o">>}

(***************************************************************************)
(* The PassPrediction panel (PassPrediction.tsx lines 14-60).  The passes  *)
(* a timer computes are known by the arguments of the call that computes   *)
(* them.                                                                   *)
(***************************************************************************)
MaxTimers == 2
MaxFetches == 1

PanelLists == {<<>>, <<1>>, <<2>>}
PanelLocations == {Null, [latitude |-> 0, longitude |-> 0]}
TimeRanges == {12, 24}
PanelMinElevations == {10, 20}

\* lines 33-39: the value of calculateSatellitePasses(filteredSatellites,
\* userLocation, new Date(), timeRange, minElevation)
CalculatedPasses(closure) == <<[calculatedFrom |-> closure]>>

\* Array.prototype.slice(0, n)
Slice(array, n) == SubSeq(array, 1, IF Len(array) < n THEN Len(array) ELSE n)

(***************************************************************************)
(* The state machine: one call of calculateSatellitePasses, one action per *)
(* loop iteration.                                                         *)
(***************************************************************************)
VARIABLES
  satellites, location, startTime, durationHours, minElevation,   \* the arguments
  outcomes, provider, raisesAt,                          \* the environment
  pc, index, endTime, time,
  currentPass, wasVisible, peakElevation, peakTime, passes,
  result,
  userPosition, coneDirection, position, apertureAngle,  \* the props of Satellite
  isInCone, isVisible,                                   \* its memos
  startAzimuth, startDir,                                \* of getDirection
  allSatellites, filteredSatellites, selectedSatelliteTypes,  \* the store
  searchFilters, userLocation, loading, fetching,
  isExpanded, isCalculating, shownPasses, timeRange,     \* PassPrediction
  panelMinElevation, timers

vars ==
  <<satellites, location, startTime, durationHours, minElevation,
    outcomes, provider, raisesAt, pc, index, endTime, time,
    currentPass, wasVisible, peakElevation, peakTime, passes, result,
    userPosition, coneDirection, position, apertureAngle, isInCone,
    isVisible, startAzimuth, startDir,
    allSatellites, filteredSatellites, selectedSatelliteTypes, searchFilters,
    userLocation, loading, fetching,
    isExpanded, isCalculating, shownPasses, timeRange, panelMinElevation,
    timers>>

args == <<satellites, location, durationHours, minElevation, outcomes>>
cone ==
  <<userPosition, coneDirection, position, apertureAngle, isInCone, isVisible>>
compass == <<startAzimuth, startDir>>
store ==
  <<allSatellites, filteredSatellites, selectedSatelliteTypes, searchFilters,
    userLocation, loading, fetching>>
panel ==
  <<isExpanded, isCalculating, shownPasses, timeRange, panelMinElevation, timers>>
elsewhere == <<cone, compass, store, panel>>
scan ==
  <<args, startTime, provider, raisesAt, pc, index, endTime, time,
    currentPass, wasVisible, peakElevation, peakTime, passes, result>>
locals == <<currentPass, wasVisible, peakElevation, peakTime>>

Locals ==
  [currentPass |-> currentPass, wasVisible |-> wasVisible,
   peakElevation |-> peakElevation, peakTime |-> peakTime,
   passes |-> passes, raised |-> FALSE]

SetLocals(sc) ==
  /\ currentPass' = sc.currentPass
  /\ wasVisible' = sc.wasVisible
  /\ peakElevation' = sc.peakElevation
  /\ peakTime' = sc.peakTime
  /\ passes' = sc.passes

Known(satellite, t) == <<satellite, t>> \in DOMAIN provider

Record(P, satellite, t, o) ==
  [k \in (DOMAIN P) \cup {<<satellite, t>>} |->
     IF k = <<satellite, t>> THEN o ELSE P[k]]

\* no satellite is drawn while a pass prediction is computed
ConeIdle ==
  /\ userPosition = Null
  /\ coneDirection = Null
  /\ position = <<0, 0, 0>>
  /\ apertureAngle = DEFAULT_APERTURE_ANGLE
  /\ isInCone = FALSE
  /\ isVisible = TRUE

\* no direction is being computed
CompassIdle ==
  /\ startAzimuth = 0
  /\ startDir = ""

\* the initial state of the store, part_002 lines 146-154
StoreIdle ==
  /\ allSatellites = <<>>
  /\ filteredSatellites = <<>>
  /\ selectedSatelliteTypes = {"ALL"}
  /\ searchFilters = {}
  /\ userLocation = Null
  /\ loading = FALSE
  /\ fetching = 0

\* the state of the panel when mounted, PassPrediction.tsx lines 14-18
PanelIdle ==
  /\ isExpanded = FALSE
  /\ isCalculating = FALSE
  /\ shownPasses = <<>>
  /\ timeRange = 24
  /\ panelMinElevation = 10
  /\ timers = <<>>

Init ==
  /\ ConeIdle
  /\ CompassIdle
  /\ StoreIdle
  /\ PanelIdle
  /\ satellites \in SatelliteLists
  /\ location = [latitude |-> 0, longitude |-> 0]
  /\ startTime = FirstStartTime
  /\ durationHours \in DurationHours(satellites)
  /\ minElevation \in MinElevations(satellites)
  /\ outcomes = Repertoire(satellites)
  /\ provider = <<>>
  /\ raisesAt = <<>>
  /\ pc = "call"
  /\ index = 1
  /\ endTime = FirstStartTime
  /\ time = FirstStartTime
  /\ currentPass = Null
  /\ wasVisible = FALSE
  /\ peakElevation = 0
  /\ peakTime = FirstStartTime
  /\ passes = <<>>
  /\ result = <<>>

\* lines 179-181
Call ==
  /\ pc = "call"
  /\ passes' = <<>>
  /\ endTime' = EndTime(startTime, durationHours)
  /\ index' = 1
  /\ pc' = "for"
  /\ UNCHANGED <<elsewhere, args, startTime, provider, raisesAt, time, locals, result>>

\* lines 183-191: the next satellite, its locals and the first sample time
EnterScan ==
  /\ pc = "for"
  /\ index <= Len(satellites)
  /\ SetLocals(ScanStart(passes, startTime))
  /\ time' = startTime
  /\ pc' = "loop"
  /\ UNCHANGED <<elsewhere, args, startTime, provider, raisesAt, index, endTime, result>>

\* lines 191-235: one sample; the provider answers for a time it has not
\* been asked about before
Sample ==
  /\ pc = "loop"
  /\ time <= endTime
  /\ ~Raises(raisesAt, satellites[index], time)
  /\ \E o \in outcomes :
       /\ Known(satellites[index], time) => o = provider[<<satellites[index], time>>]
       /\ provider' = Record(provider, satellites[index], time, o)
       /\ LET body == LoopBody(Locals, satellites[index], time, minElevation, provider')
              next == Advance(time, startTime)
          IN  IF body.raised
              THEN /\ pc' = AfterCatch
                   /\ index' = index + 1
                   /\ UNCHANGED <<time, startTime, locals, passes>>
              ELSE /\ SetLocals(body)
                   /\ time' = next.time
                   /\ startTime' = next.startTime
                   /\ UNCHANGED <<pc, index>>
  /\ UNCHANGED <<elsewhere, args, raisesAt, endTime, result>>

\* an error inside the try block, caught by lines 249-251
Raise ==
  /\ pc = "loop"
  /\ time <= endTime
  /\ satellites[index] \notin DOMAIN raisesAt
  /\ ~Known(satellites[index], time)
  /\ raisesAt' = [s \in (DOMAIN raisesAt) \cup {satellites[index]} |->
                    IF s = satellites[index] THEN time ELSE raisesAt[s]]
  /\ pc' = AfterCatch
  /\ index' = index + 1
  /\ UNCHANGED <<elsewhere, args, startTime, provider, endTime, time, locals, passes, result>>

\* lines 238-248, when the loop condition of line 191 fails
LeaveScan ==
  /\ pc = "loop"
  /\ time > endTime
  /\ LET asked == /\ currentPass # Null /\ wasVisible
                  /\ LongEnough(Minutes(endTime - currentPass.startTime))
     IN  \E o \in outcomes :
           /\ (asked /\ Known(satellites[index], endTime)) =>
                o = provider[<<satellites[index], endTime>>]
           /\ ~asked => o = CHOOSE x \in outcomes : TRUE
           /\ provider' = IF asked
                          THEN Record(provider, satellites[index], endTime, o)
                          ELSE provider
           /\ LET sc == AfterLoop(Locals, satellites[index], endTime, provider')
              IN  IF sc.raised
                  THEN /\ pc' = AfterCatch
                       /\ UNCHANGED <<locals, passes>>
                  ELSE /\ SetLocals(sc)
                       /\ pc' = "for"
  /\ index' = index + 1
  /\ UNCHANGED <<elsewhere, args, startTime, raisesAt, endTime, time, result>>

\* line 255
Return ==
  /\ pc = "for"
  /\ index > Len(satellites)
  /\ result' = SortByStartTime(passes)
  /\ pc' = "done"
  /\ UNCHANGED <<elsewhere, args, startTime, provider, raisesAt, index, endTime, time,
                 locals, passes>>

Next == Call \/ EnterScan \/ Sample \/ Raise \/ LeaveScan \/ Return

Spec == Init /\ [][Next]_vars

(***************************************************************************)
(* The aperture slider: one satellite drawn for a fixed user position and  *)
(* cone direction, while the user moves the slider.                        *)
(***************************************************************************)
ScanIdle ==
  /\ satellites = <<>>
  /\ location = [latitude |-> 0, longitude |-> 0]
  /\ startTime = FirstStartTime
  /\ durationHours = 0
  /\ minElevation = 10
  /\ outcomes = {}
  /\ provider = <<>>
  /\ raisesAt = <<>>
  /\ pc = "call"
  /\ index = 1
  /\ endTime = FirstStartTime
  /\ time = FirstStartTime
  /\ currentPass = Null
  /\ wasVisible = FALSE
  /\ peakElevation = 0
  /\ peakTime = FirstStartTime
  /\ passes = <<>>
  /\ result = <<>>

InitCone ==
  /\ ScanIdle
  /\ CompassIdle
  /\ StoreIdle
  /\ PanelIdle
  /\ userPosition \in UserPositions
  /\ coneDirection \in ConeDirections
  /\ position \in Positions
  /\ apertureAngle = DEFAULT_APERTURE_ANGLE
  /\ isInCone = IsInCone(userPosition, coneDirection, position, apertureAngle)
  /\ isVisible = IsVisibleByAngle(userPosition, coneDirection, position, apertureAngle)

\* FilterPanel.tsx lines 50-52 and the store's setApertureAngle; the memos
\* are recomputed because apertureAngle is one of their dependencies
\* (Satellite.tsx line 70, part_007 line 59)
handleApertureChange ==
  \E value \in SliderValues :
    /\ apertureAngle' = value
    /\ isInCone' = IsInCone(userPosition, coneDirection, position, value)
    /\ isVisible' = IsVisibleByAngle(userPosition, coneDirection, position, value)
    /\ UNCHANGED <<scan, compass, store, panel, userPosition, coneDirection, position>>

NextCone == handleApertureChange

SpecCone == InitCone /\ [][NextCone]_vars

(***************************************************************************)
(* getCompassDirection on its own: one call for an azimuth of [0, 360),    *)
(* the range of line 157, counted in AzimuthUnits-ths of a degree.         *)
(***************************************************************************)
AzimuthUnits == 2

Azimuths == 0..(360 * AzimuthUnits - 1)

InitCompass ==
  /\ ScanIdle
  /\ ConeIdle
  /\ StoreIdle
  /\ PanelIdle
  /\ startAzimuth \in Azimuths
  /\ startDir = ""

\* line 266
GetStartDir ==
  /\ startDir = ""
  /\ startDir' = getCompassDirectionOf(startAzimuth, AzimuthUnits)
  /\ UNCHANGED <<scan, cone, store, panel, startAzimuth>>

NextCompass == GetStartDir

SpecCompass == InitCompass /\ [][NextCompass]_vars

(***************************************************************************)
(* The store: loading the satellites and filtering them.                   *)
(***************************************************************************)
InitStore ==
  /\ ScanIdle
  /\ ConeIdle
  /\ CompassIdle
  /\ PanelIdle
  /\ StoreIdle

\* part_002 lines 170-172: up to the await of the fetch
loadSatellites ==
  /\ fetching < MaxFetches
  /\ loading' = TRUE
  /\ fetching' = fetching + 1
  /\ UNCHANGED <<scan, cone, compass, panel, allSatellites, filteredSatellites,
                 selectedSatelliteTypes, searchFilters, userLocation>>

\* lines 174-230: the fetch answers or fails, and the satellites of the
\* API or of the sample data are stored (at most maxSatellites = 5000 of
\* them, more than any list here)
loadSatellitesSettled ==
  /\ fetching > 0
  /\ \E data \in Catalogues :
       /\ allSatellites' = data
       /\ filteredSatellites' = data
  /\ loading' = FALSE
  /\ fetching' = fetching - 1
  /\ UNCHANGED <<scan, cone, compass, panel, selectedSatelliteTypes, searchFilters,
                 userLocation>>

\* lines 233-277
toggleSatelliteType ==
  \E type \in SatelliteTypes :
    LET newSelectedTypes == ToggledTypes(selectedSatelliteTypes, type)
    IN  /\ selectedSatelliteTypes' = newSelectedTypes
        /\ filteredSatellites' = FilterByTypes(allSatellites, newSelectedTypes)
        /\ UNCHANGED <<scan, cone, compass, panel, allSatellites, searchFilters,
                       userLocation, loading, fetching>>

\* lines 279-305
addSearchFilter ==
  \E searchTerm \in SearchTerms :
    LET newSearchFilters == searchFilters \cup {toLowerCase(searchTerm)}
    IN  /\ searchFilters' = newSearchFilters
        /\ filteredSatellites' =
             FilterBySearch(FilterByTypes(allSatellites, selectedSatelliteTypes),
                            newSearchFilters)
        /\ UNCHANGED <<scan, cone, compass, panel, allSatellites,
                       selectedSatelliteTypes, userLocation, loading, fetching>>

\* lines 307-333
removeSearchFilter ==
  \E searchTerm \in SearchTerms :
    LET newSearchFilters == searchFilters \ {toLowerCase(searchTerm)}
    IN  /\ searchFilters' = newSearchFilters
        /\ filteredSatellites' =
             FilterBySearch(FilterByTypes(allSatellites, selectedSatelliteTypes),
                            newSearchFilters)
        /\ UNCHANGED <<scan, cone, compass, panel, allSatellites,
                       selectedSatelliteTypes, userLocation, loading, fetching>>

\* lines 335-350
clearSearchFilters ==
  /\ searchFilters' = {}
  /\ filteredSatellites' = FilterByTypes(allSatellites, selectedSatelliteTypes)
  /\ UNCHANGED <<scan, cone, compass, panel, allSatellites, selectedSatelliteTypes,
                 userLocation, loading, fetching>>

NextStore ==
  \/ loadSatellites
  \/ loadSatellitesSettled
  \/ toggleSatelliteType
  \/ addSearchFilter
  \/ removeSearchFilter
  \/ clearSearchFilters

SpecStore == InitStore /\ [][NextStore]_vars

(***************************************************************************)
(* The PassPrediction panel: the store changes its two inputs, the user    *)
(* changes the two selects, opens and closes the panel and clicks the      *)
(* button, and the timers of line 32 fire in the order they were set.      *)
(***************************************************************************)
InitPanel ==
  /\ ScanIdle
  /\ ConeIdle
  /\ CompassIdle
  /\ StoreIdle
  /\ PanelIdle

\* the values the memo of lines 21-49 closes over
Closure ==
  [filteredSatellites |-> filteredSatellites, userLocation |-> userLocation,
   timeRange |-> timeRange, minElevation |-> panelMinElevation]

\* lines 22-48, with the values of closure
calculatePasses(closure) ==
  IF closure.userLocation = Null \/ Len(closure.filteredSatellites) = 0
  THEN /\ shownPasses' = <<>>
       /\ UNCHANGED <<isCalculating, timers>>
  ELSE /\ Len(timers) < MaxTimers
       /\ isCalculating' = TRUE
       /\ timers' = Append(timers, closure)
       /\ UNCHANGED shownPasses

\* lines 52-56, after a render in which calculatePasses or isExpanded
\* changed
useEffect(closure, expanded) ==
  IF expanded
  THEN calculatePasses(closure)
  ELSE UNCHANGED <<shownPasses, isCalculating, timers>>

\* the store's setUserLocation (part_002 lines 353-355) and the effect
setUserLocation ==
  \E l \in PanelLocations :
    /\ l # userLocation
    /\ userLocation' = l
    /\ useEffect([Closure EXCEPT !.userLocation = l], isExpanded)
    /\ UNCHANGED <<scan, cone, compass, allSatellites, filteredSatellites,
                   selectedSatelliteTypes, searchFilters, loading, fetching,
                   isExpanded, timeRange, panelMinElevation>>

\* a change of filteredSatellites by the store, and the effect
setFilteredSatellites ==
  \E list \in PanelLists :
    /\ list # filteredSatellites
    /\ filteredSatellites' = list
    /\ useEffect([Closure EXCEPT !.filteredSatellites = list], isExpanded)
    /\ UNCHANGED <<scan, cone, compass, allSatellites, userLocation,
                   selectedSatelliteTypes, searchFilters, loading, fetching,
                   isExpanded, timeRange, panelMinElevation>>

\* line 100: the select is rendered when the location is set (line 69) and
\* the panel is expanded (line 90)
setTimeRange ==
  \E value \in TimeRanges :
    /\ userLocation # Null
    /\ isExpanded
    /\ value # timeRange
    /\ timeRange' = value
    /\ useEffect([Closure EXCEPT !.timeRange = value], isExpanded)
    /\ UNCHANGED <<scan, cone, compass, store, isExpanded, panelMinElevation>>

\* line 114
setMinElevation ==
  \E value \in PanelMinElevations :
    /\ userLocation # Null
    /\ isExpanded
    /\ value # panelMinElevation
    /\ panelMinElevation' = value
    /\ useEffect([Closure EXCEPT !.minElevation = value], isExpanded)
    /\ UNCHANGED <<scan, cone, compass, store, isExpanded, timeRange>>

\* lines 59-61 and the effect
togglePanel ==
  /\ userLocation # Null
  /\ isExpanded' = ~isExpanded
  /\ useEffect(Closure, ~isExpanded)
  /\ UNCHANGED <<scan, cone, compass, store, timeRange, panelMinElevation>>

\* lines 124-126: the button, disabled while isCalculating
onClick ==
  /\ userLocation # Null
  /\ isExpanded
  /\ ~isCalculating
  /\ calculatePasses(Closure)
  /\ UNCHANGED <<scan, cone, compass, store, isExpanded, timeRange,
                 panelMinElevation>>

\* lines 32-42: the callback of the oldest timer
setTimeoutFires ==
  /\ timers # <<>>
  /\ shownPasses' = Slice(CalculatedPasses(Head(timers)), 20)
  /\ isCalculating' = FALSE
  /\ timers' = Tail(timers)
  /\ UNCHANGED <<scan, cone, compass, store, isExpanded, timeRange,
                 panelMinElevation>>

NextPanel ==
  \/ setUserLocation
  \/ setFilteredSatellites
  \/ setTimeRange
  \/ setMinElevation
  \/ togglePanel
  \/ onClick
  \/ setTimeoutFires

SpecPanel == InitPanel /\ [][NextPanel]_vars

(***************************************************************************)
(* Properties of calculateSatellitePasses and isSatelliteVisible.          *)
(***************************************************************************)

\* C1: no pass of the result has a duration of one minute or less, whether
\* a not-visible sample or the end of the window closed it.
C1_NoShortPass ==
  \A i \in DOMAIN result : MoreThan(result[i].duration, 1)

\* a call that returned a pass closed by a not-visible sample and a pass
\* closed by the end of the window between two samples
C1_Witness ==
  /\ pc = "done"
  /\ \E i, j \in DOMAIN result :
       /\ result[i].endTime < endTime
       /\ result[j].endTime = endTime
       /\ result[j].duration.num % MsPerMinute # 0

\* C2: the result is ordered by non-decreasing startTime and holds exactly
\* the passes the scans of the satellites emitted: the pushed passes, each
\* as often as pushed, which for every satellite are those of its own scan.
C2_MergedAndOrdered ==
  pc = "done" =>
    /\ \A i, j \in DOMAIN result :
         i < j => result[i].startTime <= result[j].startTime
    /\ Len(result) = Len(passes)
    /\ \A i \in DOMAIN passes :
         Cardinality({j \in DOMAIN result : result[j] = passes[i]})
           = Cardinality({j \in DOMAIN passes : passes[j] = passes[i]})
    /\ \A k \in DOMAIN satellites :
         SelectSeq(result, LAMBDA q : q.satellite = satellites[k])
           = calculateSatellitePasses(<<satellites[k]>>, startTime, durationHours,
                                      minElevation, provider, raisesAt).result

\* a call whose sort moved a pass of a later satellite before a pass of an
\* earlier one
C2_Witness ==
  /\ pc = "done"
  /\ Len(result) >= 2
  /\ result # passes
  /\ result[1].satellite # result[2].satellite

\* C3: in every pass of the result startTime < peakTime <= endTime, or
\* peakTime = startTime and no visible sample of the pass is higher than
\* its first one.
C3_PeakWithinPass ==
  \A i \in DOMAIN result :
    LET q == result[i]
        step == timeStepMinutes * MsPerMinute
        samples == {q.startTime + n * step :
                      n \in 0..((q.endTime - q.startTime) \div step)}
        at(t) == isSatelliteVisible(provider, q.satellite, t)
    IN  /\ q.peakTime <= q.endTime
        /\ \/ q.startTime < q.peakTime
           \/ /\ q.peakTime = q.startTime
              /\ \A t \in samples :
                   IsVisible(at(t), minElevation) =>
                     at(t).elevation <= at(q.startTime).elevation

\* a result with a pass that peaks after its start and a pass that peaks
\* at its start
C3_Witness ==
  /\ pc = "done"
  /\ \E i, j \in DOMAIN result :
       /\ result[i].startTime < result[i].peakTime
       /\ result[i].peakTime < result[i].endTime
       /\ result[j].peakTime = result[j].startTime

\* C4: the peak elevation of every pass of the result is at least the
\* minElevation argument.
C4_PeakAtLeastMinimum ==
  \A i \in DOMAIN result : result[i].peakElevation >= minElevation

\* a pass returned by a call in which a sample above the horizon was below
\* the minimum elevation
C4_Witness ==
  /\ pc = "done"
  /\ result # <<>>
  /\ \E k \in DOMAIN provider :
       /\ provider[k].kind = "position"
       /\ provider[k].elevation > 0
       /\ provider[k].elevation < minElevation

\* C5: every pass pushed or returned has all its fields set, a duration of
\* (endTime - startTime) in minutes and maxElevation equal to peakElevation.
C5_OnlyFinalizedPasses ==
  \A q \in {passes[i] : i \in DOMAIN passes} \cup {result[i] : i \in DOMAIN result} :
    /\ DOMAIN q = PassFields
    /\ q.duration = Minutes(q.endTime - q.startTime)
    /\ q.maxElevation = q.peakElevation

\* a result with a pass finalized by the end of the window, after a scan
\* that dropped a pass too short to be emitted
C5_Witness ==
  /\ pc = "done"
  /\ \E i \in DOMAIN result : result[i].endTime = endTime
  /\ \E k \in DOMAIN provider :
       /\ IsVisible(isSatelliteVisible(provider, k[1], k[2]), minElevation)
       /\ \A i \in DOMAIN result :
            ~(result[i].satellite = k[1] /\ result[i].startTime <= k[2]
              /\ k[2] <= result[i].endTime)

\* C6: an error raised in the scan of a satellite does not leave the call,
\* and the result holds of the other satellites exactly what the call
\* returns for the list without the failing satellites.
C6_ErrorDoesNotAbortBatch ==
  /\ pc # "thrown"
  /\ pc = "done" =>
       LET failing == DOMAIN raisesAt
           others == SelectSeq(satellites, LAMBDA x : x \notin failing)
           alone == calculateSatellitePasses(others, startTime, durationHours,
                                             minElevation, provider, raisesAt)
       IN  /\ ~alone.thrown
           /\ SelectSeq(result, LAMBDA q : q.satellite \notin failing)
                = alone.result

\* a call in which the first satellite failed and the second one still
\* contributed a pass
C6_Witness ==
  /\ pc = "done"
  /\ Len(satellites) >= 2
  /\ satellites[1] \in DOMAIN raisesAt
  /\ \E i \in DOMAIN result : result[i].satellite = satellites[2]

\* C7: a satellite whose scan was aborted by an error has no pass in the
\* result, not even one finalized before the error.
C7_FailedContributesNothing ==
  pc = "done" =>
    \A i \in DOMAIN result : result[i].satellite \notin DOMAIN raisesAt

\* C8: isSatelliteVisible lets no exception out, and answers not visible
\* with elevation 0 and azimuth 0 when the provider throws or has no
\* position.
C8_VisibleNeverThrows ==
  \A k \in DOMAIN provider :
    LET r == isSatelliteVisible(provider, k[1], k[2])
    IN  /\ ~r.threw
        /\ provider[k].kind \in {"throw", "none"} =>
             (~r.visible /\ r.elevation = 0 /\ r.azimuth = 0)

\* a call that returned a pass of a satellite for which the provider threw
\* at another sample
C8_Witness ==
  /\ pc = "done"
  /\ \E k \in DOMAIN provider :
       /\ provider[k].kind = "throw"
       /\ \E i \in DOMAIN result : result[i].satellite = k[1]

\* C9: a second call with the arguments as the first call left them, the
\* same provider and the same errors returns the sequence the first call
\* returned.
C9_SameInputsSameOutput ==
  pc = "done" =>
    LET again == calculateSatellitePasses(satellites, startTime, durationHours,
                                          minElevation, provider, raisesAt)
    IN  ~again.thrown /\ again.result = result

\* a call on two satellites that returned passes of both
C9_Witness ==
  /\ pc = "done"
  /\ \E i, j \in DOMAIN result : result[i].satellite # result[j].satellite

\* C10: the result is the same sequence for every order of the satellites
\* in the list.
C10_OrderOfSatellitesIrrelevant ==
  pc = "done" =>
    \A other \in Perms({satellites[k] : k \in DOMAIN satellites}) :
      calculateSatellitePasses(other, startTime, durationHours, minElevation,
                               provider, raisesAt).result = result

\* C11 (as stated): the last sample counted as visible exactly when its
\* elevation is strictly greater than minElevation.
C11_StrictlyAboveMinimum ==
  (pc = "loop" /\ time > startTime) =>
    LET last == time - timeStepMinutes * MsPerMinute
        v == isSatelliteVisible(provider, satellites[index], last)
    IN  wasVisible = (v.elevation > minElevation)

\* C11 (amended): the last sample counted as visible exactly when its
\* elevation is above the horizon (> 0) and at least minElevation.
C11_AtOrAboveMinimum ==
  (pc = "loop" /\ time > startTime) =>
    LET last == time - timeStepMinutes * MsPerMinute
        v == isSatelliteVisible(provider, satellites[index], last)
    IN  wasVisible = (v.elevation > 0 /\ v.elevation >= minElevation)

\* a sample whose elevation equals a positive minElevation counted as
\* visible
C11_Witness ==
  /\ pc = "loop"
  /\ time > startTime
  /\ minElevation > 0
  /\ wasVisible
  /\ isSatelliteVisible(provider, satellites[index],
                        time - timeStepMinutes * MsPerMinute).elevation
       = minElevation

\* C12 (as stated): a satellite visible at every sample of the window has
\* exactly one pass in the result, from the window start to the window
\* boundary, of the window's length and with the highest sampled elevation.
C12_AlwaysVisibleOnePass ==
  pc = "done" =>
    \A k \in DOMAIN satellites :
      LET s == satellites[k]
          step == timeStepMinutes * MsPerMinute
          samples == {startTime + n * step : n \in 0..((endTime - startTime) \div step)}
          at(t) == provider[<<s, t>>]
          seen(t) == /\ <<s, t>> \in DOMAIN provider
                     /\ at(t).kind = "position"
                     /\ at(t).elevation > 0
                     /\ at(t).elevation >= minElevation
          own == SelectSeq(result, LAMBDA q : q.satellite = s)
      IN  (endTime >= startTime /\ \A t \in samples : seen(t)) =>
            /\ Len(own) = 1
            /\ own[1].startTime = startTime
            /\ own[1].endTime = endTime
            /\ own[1].duration = Minutes(endTime - startTime)
            /\ \A t \in samples : at(t).elevation <= own[1].peakElevation
            /\ \E t \in samples : at(t).elevation = own[1].peakElevation

\* C12 (amended): the same, for a window longer than one minute.
C12_AlwaysVisibleOnePassLongWindow ==
  pc = "done" =>
    \A k \in DOMAIN satellites :
      LET s == satellites[k]
          step == timeStepMinutes * MsPerMinute
          samples == {startTime + n * step : n \in 0..((endTime - startTime) \div step)}
          at(t) == provider[<<s, t>>]
          seen(t) == /\ <<s, t>> \in DOMAIN provider
                     /\ at(t).kind = "position"
                     /\ at(t).elevation > 0
                     /\ at(t).elevation >= minElevation
          own == SelectSeq(result, LAMBDA q : q.satellite = s)
      IN  (endTime - startTime > MsPerMinute /\ \A t \in samples : seen(t)) =>
            /\ Len(own) = 1
            /\ own[1].startTime = startTime
            /\ own[1].endTime = endTime
            /\ own[1].duration = Minutes(endTime - startTime)
            /\ \A t \in samples : at(t).elevation <= own[1].peakElevation
            /\ \E t \in samples : at(t).elevation = own[1].peakElevation

\* a satellite visible at all samples of a window of more than three
\* minutes, highest after the first sample
C12_Witness ==
  /\ pc = "done"
  /\ endTime - startTime > 3 * MsPerMinute
  /\ Len(result) = 1
  /\ result[1].startTime = startTime
  /\ result[1].endTime = endTime
  /\ result[1].peakTime > startTime
  /\ \A k \in DOMAIN provider :
       provider[k].kind = "position" /\ provider[k].elevation >= minElevation
         /\ provider[k].elevation > 0

\* C13: when no sample of the call is visible, the call returns the empty
\* sequence, and no exception leaves it.
C13_NothingVisibleEmptyResult ==
  /\ pc # "thrown"
  /\ pc = "done" =>
       ((\A k \in DOMAIN provider :
            ~(/\ provider[k].kind = "position"
              /\ provider[k].elevation > 0
              /\ provider[k].elevation >= minElevation))
          => result = <<>>)

\* a call with minElevation 0 that sampled a satellite at elevation -10
\* four times or more, saw nothing visible and returned no pass
C13_Witness ==
  /\ pc = "done"
  /\ minElevation = 0
  /\ result = <<>>
  /\ Cardinality(DOMAIN provider) >= 4
  /\ \A k \in DOMAIN provider : provider[k] = Position(-10, -160)

\* C14: the direction of every pass is the compass label of the azimuth
\* isSatelliteVisible gives at its startTime, " to ", and the label of the
\* azimuth at its endTime; azimuths 10 and 170 give "N to S".
C14_DirectionFromEnds ==
  \A i \in DOMAIN result :
    LET q == result[i]
        from == isSatelliteVisible(provider, q.satellite, q.startTime).azimuth
        to == isSatelliteVisible(provider, q.satellite, q.endTime).azimuth
    IN  /\ q.direction = getCompassDirection(from) \o " to " \o getCompassDirection(to)
        /\ (from = 10 /\ to = 170) => q.direction = "N to S"

\* a returned pass with azimuth 10 at its start and 170 at its end
C14_Witness ==
  /\ pc = "done"
  /\ \E i \in DOMAIN result :
       /\ isSatelliteVisible(provider, result[i].satellite,
                             result[i].startTime).azimuth = 10
       /\ isSatelliteVisible(provider, result[i].satellite,
                             result[i].endTime).azimuth = 170
       /\ result[i].direction = "N to S"

\* C15: a call with a non-positive durationHours is rejected before any
\* sample is evaluated: it asks the provider nothing and does not return.
C15_RejectsInvalidInput ==
  durationHours <= 0 => (provider = <<>> /\ pc # "done")

\* C16: for a fixed apex, axis and point, a point inside the cone stays
\* inside when the slider is moved to the same or a wider aperture (half
\* angle up to 90 degrees).
C16_WideningKeepsPoints ==
  [][(isInCone /\ apertureAngle' >= apertureAngle) => isInCone']_vars

\* the slider at its widest, with a point inside the cone that is outside
\* at the default aperture
C16_Witness ==
  /\ apertureAngle = SliderMax
  /\ isInCone
  /\ ~IsInCone(userPosition, coneDirection, position, DEFAULT_APERTURE_ANGLE)
  /\ Sub(position, userPosition) # MultiplyScalar(coneDirection, Dot(Sub(position, userPosition), coneDirection))

\* C17: no step of a call changes the startTime argument, the observer
\* location or the list of satellites.
C17_InputsUnchanged ==
  [][/\ startTime' = startTime
     /\ location' = location
     /\ satellites' = satellites]_vars

\* a returned call on two satellites that sampled past the start of the
\* window and found a pass of each
C17_Witness ==
  /\ pc = "done"
  /\ Len(satellites) = 2
  /\ Len(result) = 2
  /\ time > endTime
  /\ endTime > startTime
  /\ startTime = FirstStartTime

\* C18: an iteration of the time loop opens a pass exactly when its sample
\* is visible and the sample before it was not visible or there is none;
\* the new pass starts and peaks at the sample's time with the sample's
\* elevation.
C18_OpensOnFirstVisibleSample ==
  [][(pc = "loop" /\ time' # time) =>
       LET s == satellites[index]
           v == isSatelliteVisible(provider', s, time)
           before == isSatelliteVisible(provider, s, time - timeStepMinutes * MsPerMinute)
           follows == time > startTime /\ IsVisible(before, minElevation)
           opened == /\ currentPass' # Null
                     /\ (currentPass = Null \/ currentPass'.startTime # currentPass.startTime)
       IN  /\ opened <=> (IsVisible(v, minElevation) /\ ~follows)
           /\ opened =>
                /\ currentPass'.startTime = time
                /\ currentPass'.peakTime = time
                /\ currentPass'.peakElevation = v.elevation
                /\ peakTime' = time
                /\ peakElevation' = v.elevation]_vars

\* a second pass of the scan just opened, after a pass already pushed
C18_Witness ==
  /\ pc = "loop"
  /\ currentPass # Null
  /\ currentPass.startTime = time - timeStepMinutes * MsPerMinute
  /\ currentPass.peakTime = currentPass.startTime
  /\ passes # <<>>
  /\ passes[Len(passes)].satellite = satellites[index]

\* C19: an iteration whose sample is not visible after a visible one sets
\* the open pass's endTime to the sample's time and its duration to the
\* minutes between its start and end, pushes it exactly when that is more
\* than one minute, and leaves no pass open.
C19_ClosesOnFirstHiddenSample ==
  [][(/\ pc = "loop"
      /\ time' # time
      /\ time > startTime
      /\ IsVisible(isSatelliteVisible(provider, satellites[index],
                                      time - timeStepMinutes * MsPerMinute),
                   minElevation)
      /\ ~IsVisible(isSatelliteVisible(provider', satellites[index], time),
                    minElevation)) =>
       /\ currentPass' = Null
       /\ ~wasVisible'
       /\ IF time - currentPass.startTime > MsPerMinute
          THEN /\ Len(passes') = Len(passes) + 1
               /\ SubSeq(passes', 1, Len(passes)) = passes
               /\ passes'[Len(passes')].satellite = satellites[index]
               /\ passes'[Len(passes')].startTime = currentPass.startTime
               /\ passes'[Len(passes')].endTime = time
               /\ passes'[Len(passes')].duration = Minutes(time - currentPass.startTime)
          ELSE passes' = passes]_vars

\* a pass just pushed by a not-visible sample, and one visible sample
\* before that pass that was dropped
C19_Witness ==
  /\ pc = "loop"
  /\ ~wasVisible
  /\ currentPass = Null
  /\ Len(passes) = 1
  /\ passes[1].endTime = time - timeStepMinutes * MsPerMinute
  /\ passes[1].startTime > startTime + timeStepMinutes * MsPerMinute
  /\ IsVisible(isSatelliteVisible(provider, satellites[index], startTime),
               minElevation)

\* C20: when the time loop ends after a visible sample, the open pass gets
\* the window boundary startTime + durationHours as endTime and is pushed
\* exactly when it is longer than one minute; after a not-visible sample
\* nothing is pushed.
C20_ClosesAtWindowBoundary ==
  [][(pc = "loop" /\ time > endTime /\ pc' = "for") =>
       IF IsVisible(isSatelliteVisible(provider, satellites[index],
                                       time - timeStepMinutes * MsPerMinute),
                    minElevation)
       THEN /\ endTime = EndTime(startTime, durationHours)
            /\ currentPass'.endTime = endTime
            /\ IF endTime - currentPass.startTime > MsPerMinute
               THEN /\ passes' = Append(passes, currentPass')
                    /\ currentPass'.startTime = currentPass.startTime
                    /\ currentPass'.duration = Minutes(endTime - currentPass.startTime)
               ELSE passes' = passes
       ELSE passes' = passes]_vars

\* a scan ended by a window boundary between two samples, with the pass of
\* its last samples pushed
C20_Witness ==
  /\ pc = "for"
  /\ index > 1
  /\ (endTime - startTime) % MsPerMinute # 0
  /\ passes # <<>>
  /\ passes[Len(passes)].endTime = endTime
  /\ passes[Len(passes)].startTime > startTime
  /\ passes[Len(passes)].satellite = satellites[index - 1]

\* C21: the peakElevation of every pass of the result is the highest
\* elevation among the visible samples of the pass, and its peakTime is the
\* time of the earliest of the samples that high.
C21_PeakIsEarliestMaximum ==
  \A i \in DOMAIN result :
    LET q == result[i]
        step == timeStepMinutes * MsPerMinute
        samples == {q.startTime + n * step :
                      n \in 0..((q.endTime - q.startTime) \div step)}
        at(t) == isSatelliteVisible(provider, q.satellite, t)
        seen == {t \in samples : IsVisible(at(t), minElevation)}
    IN  /\ q.peakTime \in seen
        /\ at(q.peakTime).elevation = q.peakElevation
        /\ \A t \in seen :
             /\ at(t).elevation <= q.peakElevation
             /\ at(t).elevation = q.peakElevation => q.peakTime <= t

\* a returned pass whose highest elevation was sampled twice, first after
\* the start of the pass
C21_Witness ==
  /\ pc = "done"
  /\ \E i \in DOMAIN result :
       LET q == result[i]
           later == q.peakTime + timeStepMinutes * MsPerMinute
       IN  /\ q.startTime < q.peakTime
           /\ later < q.endTime
           /\ isSatelliteVisible(provider, q.satellite, later).elevation
                = q.peakElevation

\* C22: for an azimuth of [0, 360) the label is one of the eight of
\* directions, namely the one whose bearing 45 * k is nearest (a sector of
\* 45 degrees centred on the bearing, its lower edge included), and from
\* 337.5 degrees up the label is N again.
C22_CompassSectors ==
  startDir # "" =>
    /\ \E k \in 0..7 : startDir = directions[k + 1]
    /\ \A k \in 1..7 :
         (/\ 2 * startAzimuth >= (90 * k - 45) * AzimuthUnits
          /\ 2 * startAzimuth < (90 * k + 45) * AzimuthUnits)
           <=> startDir = directions[k + 1]
    /\ (\/ 2 * startAzimuth < 45 * AzimuthUnits
        \/ 2 * startAzimuth >= 675 * AzimuthUnits)
         <=> startDir = "N"

\* the label of the azimuth 337.5
C22_Witness ==
  /\ 2 * startAzimuth = 675 * AzimuthUnits
  /\ startDir = "N"

SampleTime(n) == startTime + n * timeStepMinutes * MsPerMinute

\* the index of the last sample of the window
LastSample == (endTime - startTime) \div (timeStepMinutes * MsPerMinute)

\* satellite s was visible at the n-th sample
VisibleAt(s, n) ==
  IsVisible(isSatelliteVisible(provider, s, SampleTime(n)), minElevation)

\* samples a..b are a maximal run of visible samples of satellite s
MaximalRun(s, a, b) ==
  /\ a <= b
  /\ \A n \in a..b : VisibleAt(s, n)
  /\ a = 0 \/ ~VisibleAt(s, a - 1)
  /\ b = LastSample \/ ~VisibleAt(s, b + 1)

\* the number of passes of the result that satellite s has from time t
PassesFrom(s, t) ==
  Cardinality({i \in DOMAIN result :
                 result[i].satellite = s /\ result[i].startTime = t})

C25_OpenIffWasVisible ==
  pc = "loop" => ((currentPass # Null) <=> wasVisible)

\* a pass open for three samples or more after another pass was pushed
C25_Witness ==
  /\ pc = "loop"
  /\ wasVisible
  /\ currentPass # Null
  /\ currentPass.startTime + 2 * timeStepMinutes * MsPerMinute < time
  /\ currentPass.startTime > startTime

\* C26: two passes of the same satellite never overlap: the one that
\* starts first ends strictly before the other starts.
C26_PassesOfOneSatelliteDisjoint ==
  \A i, j \in DOMAIN passes :
    (/\ i # j
     /\ passes[i].satellite = passes[j].satellite
     /\ passes[i].startTime <= passes[j].startTime)
      => passes[i].endTime < passes[j].startTime

\* two passes of the same satellite returned, the second opened by the
\* sample right after the one that closed the first
C26_Witness ==
  /\ pc = "done"
  /\ Len(result) = 2
  /\ result[1].satellite = result[2].satellite
  /\ result[2].startTime = result[1].endTime + timeStepMinutes * MsPerMinute
  /\ \A k \in DOMAIN provider : provider[k].kind = "position"

\* the provider gave no position for the sample: it threw, or returned
\* nothing
Failed(o) == o.kind # "position"

\* C27: a sample for which the provider fails is a not-visible sample of
\* elevation 0 and the scan goes on: an open pass is finalized with the
\* time of that sample as endTime (and pushed if longer than a minute), no
\* pass stays open, and a visible sample right after it opens a new pass.
C27_FailedSampleIsNotVisible ==
  [][/\ (/\ pc = "loop"
         /\ time <= endTime
         /\ <<satellites[index], time>> \in DOMAIN provider'
         /\ Failed(provider'[<<satellites[index], time>>])) =>
          /\ isSatelliteVisible(provider', satellites[index], time)
               = Visibility(FALSE, 0, 0)
          /\ pc' = "loop"
          /\ time' = time + timeStepMinutes * MsPerMinute
          /\ ~wasVisible'
          /\ currentPass' = Null
          /\ IF wasVisible /\ time - currentPass.startTime > MsPerMinute
             THEN /\ Len(passes') = Len(passes) + 1
                  /\ SubSeq(passes', 1, Len(passes)) = passes
                  /\ passes'[Len(passes')].startTime = currentPass.startTime
                  /\ passes'[Len(passes')].endTime = time
             ELSE passes' = passes
     /\ (/\ pc = "loop"
         /\ time' # time
         /\ <<satellites[index], time - timeStepMinutes * MsPerMinute>>
              \in DOMAIN provider
         /\ Failed(provider[<<satellites[index],
                              time - timeStepMinutes * MsPerMinute>>])
         /\ IsVisible(isSatelliteVisible(provider', satellites[index], time),
                      minElevation)) =>
          /\ currentPass' # Null
          /\ currentPass'.startTime = time
          /\ passes' = passes]_vars

\* a visible interval split in two passes by one sample for which the
\* provider threw
C27_Witness ==
  /\ pc = "done"
  /\ Len(result) = 2
  /\ result[1].satellite = result[2].satellite
  /\ provider[<<result[1].satellite, result[1].endTime>>] = Throws
  /\ result[2].startTime = result[1].endTime + timeStepMinutes * MsPerMinute

\* C28: with the panel open, a location set and no timer left, the passes
\* shown are those of the current inputs: the empty list when there is no
\* satellite, otherwise the first 20 passes calculated from them.
C28_ShownPassesAreCurrent ==
  (isExpanded /\ userLocation # Null /\ timers = <<>>) =>
    shownPasses = IF Len(filteredSatellites) = 0
                  THEN <<>>
                  ELSE Slice(CalculatedPasses(Closure), 20)

\* C29: isCalculating is true as long as a timer set by calculatePasses
\* has not fired.
C29_CalculatingWhilePending ==
  timers # <<>> => isCalculating

\* C30: filteredSatellites is the list of the satellites of the store whose
\* type is selected (all of them under 'ALL') and, when there are search
\* filters, whose lower-cased name contains one of them.
C30_FilteredMatchesFilters ==
  filteredSatellites =
    SelectSeq(allSatellites,
              LAMBDA sat :
                /\ \/ "ALL" \in selectedSatelliteTypes
                   \/ (IF sat.type = "" THEN "UNKNOWN" ELSE sat.type)
                        \in selectedSatelliteTypes
                /\ \/ searchFilters = {}
                   \/ \E term \in searchFilters :
                        includes(toLowerCase(sat.name), term))

====
